---- MODULE Spec2Model ----
(***************************************************************************)
(* The /analyze handler of src/app.py (EMMA, "Elder Mood Mirror"): mood    *)
(* statistics over the merged logs, label encoding and 2-means clustering  *)
(* of the survey logs, the suggestions derived from the cluster means, the *)
(* chart written through pyplot's process-wide figure registry to one      *)
(* fixed file, the e-mails that attach that file, and the JSON response.   *)
(*                                                                         *)
(* Strings are modelled by their rank in lexicographic order (a smaller    *)
(* number is a smaller string).  A JSON record is a function from the six  *)
(* field names to a rank, or to Absent when the record has no such key,    *)
(* which is exactly the NaN cell pandas.DataFrame builds for it.           *)
(***************************************************************************)
EXTENDS Integers, Sequences, FiniteSets, TLC

VARIABLES
    pc,             \* per request: the handler's position
    request,        \* per request: request.get_json()
    mood_counts,    \* per request: Counter(df_all["mood"]): keys in first-seen order, counts
    dominant_mood,  \* per request: max(mood_counts, key=mood_counts.get)
    do_cluster,     \* per request: the local of line 100
    df_survey,      \* per request: the label-encoded survey frame (rows of codes)
    encoders,       \* per request: column -> LabelEncoder.classes_
    cluster,        \* per request: kmeans.fit_predict(df_feat), one label per row
    bad_good,       \* per request: <<bad, good>> of line 127
    caught,         \* per request: the inner except clause (line 144) ran
    suggestions,    \* per request: the local list of line 97
    figs,           \* process-wide: pyplot's figure registry, active figure last
    chart_file,     \* the file output/mood_chart.png
    mailed,         \* per request: the attachment each sent e-mail carried
    response        \* per request: what the handler returned

vars == <<pc, request, mood_counts, dominant_mood, do_cluster, df_survey, encoders,
          cluster, bad_good, caught, suggestions, figs, chart_file, mailed, response>>

engine == <<mood_counts, dominant_mood, do_cluster, df_survey, encoders, cluster,
            bad_good, caught, suggestions>>

---------------------------------------------------------------------------
(* Bounds of the model *)

\* the default specification: at most this many survey logs ...
MaxSurvey == 2
\* ... and this many camera logs per request
MaxCamera == 1
\* the clustering specification: at most this many (complete) survey logs
MaxKLogs == 4
\* the concurrent specification: at most this many survey logs per request
MaxConcLogs == 2
\* the fair specification: at most this many survey logs per request
MaxLiveLogs == 1

\* the two requests that may be in flight together
Reqs == {1, 2}

\* the strings a field may carry, by lexicographic rank: e.g. "Low" and "poor"
Vals == {2, 4}

---------------------------------------------------------------------------
(* Data *)

feature_cols == <<"sleep", "water", "exercise", "pain", "energy", "mood">>

FieldSet == {feature_cols[i] : i \in 1..Len(feature_cols)}

\* feature_cols[:-1], the columns the correlation loop walks
FeatCols == SubSeq(feature_cols, 1, Len(feature_cols) - 1)

\* a key the record does not carry: the NaN cell of the DataFrame
Absent == 0

\* the rank of "nan", the text astype(str) gives a NaN cell: "Low" < "nan" < "poor"
NanStr == 3

\* the chart file does not exist yet
NoFile == -1

\* the empty figure gcf() makes when the registry holds none
Blank == 0

NoCorrelationMsg == "No immediate behavioral factors correlated with mood swings this week. Continue with current routines."

ClusterErrorMsg == "Could not perform detailed behavioral analysis this week. Data complexity may be a factor."

msg_map(col) ==
    CASE col = "sleep" -> "Focus on **consistent sleep quality** as it shows a strong correlation with positive mood states."
      [] col = "water" -> "Encourage adequate **daily hydration**; emotional stability increases on days with higher intake."
      [] col = "exercise" -> "Introduce light **daily activity/stretching**; physical movement boosts energy and mood."
      [] col = "pain" -> "Monitor and manage **pain levels** closely, as lower pain predicts a brighter mood outlook."
      [] col = "energy" -> "Higher **energy** levels typically accompany positive mood. Check for daytime energy dips."

Range(s) == {s[i] : i \in DOMAIN s}

RECURSIVE SumSet(_, _)
SumSet(S, f) ==
    IF S = {} THEN 0
    ELSE LET x == CHOOSE y \in S : TRUE IN f[x] + SumSet(S \ {x}, f)

Abs(x) == IF x < 0 THEN -x ELSE x

---------------------------------------------------------------------------
(* Lines 65-69, 75-77: the merged logs and the columns of a DataFrame *)

all_logs(data) == data.daily_logs \o data.camera_moods

\* pd.DataFrame(list of dicts).columns: the union of the records' keys
Columns(logs) == {f \in FieldSet : \E i \in DOMAIN logs : logs[i][f] # Absent}

\* df[col]: one cell per record, NaN (Absent) where the record has no such key
Column(logs, col) == [i \in DOMAIN logs |-> logs[i][col]]

---------------------------------------------------------------------------
(* Lines 80-83: mood statistics *)

\* Counter(iterable): one pass, a key is inserted when first seen
RECURSIVE CounterScan(_, _, _)
CounterScan(col, i, c) ==
    IF i > Len(col) THEN c
    ELSE LET m == col[i] IN
         IF m \in DOMAIN c.cnt
         THEN CounterScan(col, i + 1, [c EXCEPT !.cnt[m] = @ + 1])
         ELSE CounterScan(col, i + 1,
                          [names |-> Append(c.names, m), cnt |-> c.cnt @@ (m :> 1)])

Counter(col) == CounterScan(col, 1, [names |-> <<>>, cnt |-> <<>>])

\* a max scan that keeps the latest of the tied keys
RECURSIVE MaxScanLast(_, _, _)
MaxScanLast(c, i, best) ==
    IF i > Len(c.names) THEN best
    ELSE MaxScanLast(c, i + 1,
                     IF c.cnt[c.names[i]] >= c.cnt[best] THEN c.names[i] ELSE best)

MaxByCountLast(c) == MaxScanLast(c, 2, c.names[1])

\* max(mood_counts, key=mood_counts.get): keys in insertion order, a later key
\* replaces the best one only when its count is strictly greater
RECURSIVE MaxScan(_, _, _)
MaxScan(c, i, best) ==
    IF i > Len(c.names) THEN best
    ELSE MaxScan(c, i + 1,
                 IF c.cnt[c.names[i]] > c.cnt[best] THEN c.names[i] ELSE best)

MaxByCount(c) ==
    MaxScan(c, 2, c.names[1])

---------------------------------------------------------------------------
(* Lines 105-112: label encoding *)

\* astype(str) on one cell
StrOf(cell) == IF cell = Absent THEN NanStr ELSE cell

\* LabelEncoder.fit: classes_ is the sorted set of the distinct strings
Classes(col) == {StrOf(col[i]) : i \in DOMAIN col}

\* LabelEncoder.transform: the position of the string in the sorted classes_
Code(classes, s) == Cardinality({c \in classes : c < s})

fit_transform(col) == [i \in DOMAIN col |-> Code(Classes(col), StrOf(col[i]))]

\* the frame after the loop of lines 109-112: a row of codes per survey log
Encode(logs) ==
    [i \in DOMAIN logs |-> [f \in FieldSet |-> fit_transform(Column(logs, f))[i]]]

EncodersOf(logs) == [f \in FieldSet |-> Classes(Column(logs, f))]

---------------------------------------------------------------------------
(* Lines 115-120: KMeans(n_clusters=2, random_state=42, n_init=10) on the    *)
(* five encoded feature columns.  The labelling the seeded k-means++ start   *)
(* leads to is not computed here; fit_predict is any outcome Lloyd's         *)
(* iteration can stop at: two non-empty clusters, every row at least as near *)
(* to the mean of its own cluster as to the other mean (which of two         *)
(* equidistant means a row gets depends on floating-point rounding), equal   *)
(* rows labelled alike, with either cluster numbered 0.  When all rows are   *)
(* equal the two centres coincide and every row gets label 0.                *)

FeatSet == Range(FeatCols)

SamePoint(X, i, j) == \A f \in FeatSet : X[i][f] = X[j][f]

Members(lab, k) == {i \in DOMAIN lab : lab[i] = k}

\* the sum of column f over the rows S
ColSum(X, S, f) == SumSet(S, [i \in S |-> X[i][f]])

\* |S|^2 times the squared Euclidean distance from row i to the mean of the rows S
Dist2(X, i, S) ==
    SumSet(FeatSet, [f \in FeatSet |->
        (Cardinality(S) * X[i][f] - ColSum(X, S, f))
      * (Cardinality(S) * X[i][f] - ColSum(X, S, f))])

\* row i is at least as near to the mean of S as to the mean of T
NoFarther(X, i, S, T) ==
    Dist2(X, i, S) * Cardinality(T) * Cardinality(T)
        <= Dist2(X, i, T) * Cardinality(S) * Cardinality(S)

KMeansLabels(X) ==
    IF \A i, j \in DOMAIN X : SamePoint(X, i, j)
    THEN {[i \in DOMAIN X |-> 0]}
    ELSE {lab \in [DOMAIN X -> {0, 1}] :
            /\ Members(lab, 0) # {}
            /\ Members(lab, 1) # {}
            /\ \A i, j \in DOMAIN X : SamePoint(X, i, j) => lab[i] = lab[j]
            /\ \A i \in DOMAIN X :
                  NoFarther(X, i, Members(lab, lab[i]), Members(lab, 1 - lab[i]))}

---------------------------------------------------------------------------
(* Lines 122-143: cluster means, the bad/good order, the correlated features *)

\* sorted(...) with the order reversed
SortByMoodReversed(X, lab) ==
    IF ColSum(X, Members(lab, 1), "mood") * Cardinality(Members(lab, 0))
         > ColSum(X, Members(lab, 0), "mood") * Cardinality(Members(lab, 1))
    THEN <<1, 0>> ELSE <<0, 1>>

\* bad, good = sorted(cluster_mean.index, key=mean of mood_lbl): the index is
\* [0, 1] and the sort is stable, so 1 comes first only when its mean is smaller
SortByMood(X, lab) ==
    IF ColSum(X, Members(lab, 1), "mood") * Cardinality(Members(lab, 0))
         < ColSum(X, Members(lab, 0), "mood") * Cardinality(Members(lab, 1))
    THEN <<1, 0>> ELSE <<0, 1>>

\* the test with a strict comparison
CorrelatedStrict(X, lab, bg, col) ==
    LET B == Members(lab, bg[1])
        G == Members(lab, bg[2])
    IN  2 * Abs(ColSum(X, G, col) * Cardinality(B) - ColSum(X, B, col) * Cardinality(G))
            > Cardinality(B) * Cardinality(G)

\* abs(good_v - bad_v) >= 0.5 on the two cluster means of column col.  The means
\* are sums over counts; with at most five rows every difference of exactly one
\* half is a difference of binary fractions, so the float test is the exact one.
Correlated(X, lab, bg, col) ==
    LET B == Members(lab, bg[1])
        G == Members(lab, bg[2])
    IN  2 * Abs(ColSum(X, G, col) * Cardinality(B) - ColSum(X, B, col) * Cardinality(G))
            >= Cardinality(B) * Cardinality(G)

\* the loop of lines 130-143 over feature_cols[:-1], from column number k on
RECURSIVE CorrelationLoop(_, _, _, _, _)
CorrelationLoop(X, lab, bg, k, acc) ==
    IF k > Len(FeatCols) THEN acc
    ELSE CorrelationLoop(X, lab, bg, k + 1,
             IF Correlated(X, lab, bg, FeatCols[k])
             THEN Append(acc, msg_map(FeatCols[k])) ELSE acc)

\* an except clause that swallows the error and appends nothing
ExceptHandlerSilent(sugg) == sugg

\* lines 144-146: the except clause of the clustering branch
ExceptHandler(sugg) == Append(sugg, ClusterErrorMsg)

\* no fallback
WithFallbackNone(sugg) == sugg

\* lines 149-150
WithFallback(sugg) == IF sugg = <<>> THEN <<NoCorrelationMsg>> ELSE sugg

\* line 100
DoCluster(survey_logs) ==
    (\A col \in FieldSet : col \in Columns(survey_logs)) /\ survey_logs # <<>>

\* what lines 120-143 leave behind for one labelling
AfterFit(X, enc, lab) ==
    IF Members(lab, 1) = {} \/ Members(lab, 0) = {}
    THEN \* cluster_mean has one row: unpacking into bad, good raises ValueError
         [do_cluster |-> TRUE, df_survey |-> X, encoders |-> enc, cluster |-> lab,
          bad_good |-> <<>>, caught |-> TRUE,
          suggestions |-> WithFallback(ExceptHandler(<<>>))]
    ELSE LET bg == SortByMood(X, lab) IN
         [do_cluster |-> TRUE, df_survey |-> X, encoders |-> enc, cluster |-> lab,
          bad_good |-> bg, caught |-> FALSE,
          suggestions |-> WithFallback(CorrelationLoop(X, lab, bg, 1, <<>>))]

\* lines 95-150 as a whole: every result the clustering branch can leave
ClusterOutcomes(survey_logs) ==
    IF ~DoCluster(survey_logs)
    THEN {[do_cluster |-> FALSE, df_survey |-> <<>>, encoders |-> <<>>, cluster |-> <<>>,
           bad_good |-> <<>>, caught |-> FALSE, suggestions |-> WithFallback(<<>>)]}
    ELSE LET X == Encode(survey_logs)
             enc == EncodersOf(survey_logs)
         IN  IF Len(X) < 2
             THEN \* KMeans.fit raises ValueError: n_samples=1 < n_clusters=2
                  {[do_cluster |-> TRUE, df_survey |-> X, encoders |-> enc,
                    cluster |-> <<>>, bad_good |-> <<>>, caught |-> TRUE,
                    suggestions |-> WithFallback(ExceptHandler(<<>>))]}
             ELSE {AfterFit(X, enc, lab) : lab \in KMeansLabels(X)}

---------------------------------------------------------------------------
(* The handler, lines 57-271, one action per stretch between two accesses to *)
(* what requests share (pyplot's figure registry and the chart file).        *)

NoResponse == [status |-> 0, dominant_mood |-> Absent, suggestions |-> <<>>, message |-> ""]

NoCounts == [names |-> <<>>, cnt |-> <<>>]

\* return jsonify({"status": "error", "message": msg}), status
Fail(r, status, msg) ==
    /\ response' = [response EXCEPT ![r] =
           [status |-> status, dominant_mood |-> Absent, suggestions |-> <<>>,
            message |-> msg]]
    /\ pc' = [pc EXCEPT ![r] = "done"]

\* lines 61-92: the body, the merged logs, the mood column, the statistics
Validate(r) ==
    /\ pc[r] = "start"
    /\ UNCHANGED <<request, do_cluster, df_survey, encoders, cluster, bad_good, caught,
                   suggestions, figs, chart_file, mailed>>
    /\ LET data == request[r] IN
       IF data.body = "none"
       THEN Fail(r, 400, "No JSON body") /\ UNCHANGED <<mood_counts, dominant_mood>>
       ELSE IF data.body = "list"
       THEN \* a JSON array: data.get raises AttributeError, caught at line 269
            Fail(r, 500, "AttributeError") /\ UNCHANGED <<mood_counts, dominant_mood>>
       ELSE IF all_logs(data) = <<>>
       THEN Fail(r, 400, "No mood data") /\ UNCHANGED <<mood_counts, dominant_mood>>
       ELSE IF "mood" \notin Columns(all_logs(data))
       THEN Fail(r, 400, "Missing 'mood' column in logs")
            /\ UNCHANGED <<mood_counts, dominant_mood>>
       ELSE /\ mood_counts' = [mood_counts EXCEPT ![r] =
                                   Counter(Column(all_logs(data), "mood"))]
            /\ dominant_mood' = [dominant_mood EXCEPT ![r] =
                                   MaxByCount(Counter(Column(all_logs(data), "mood")))]
            /\ pc' = [pc EXCEPT ![r] = "cluster"]
            /\ UNCHANGED response

\* the clustering branch with its locals kept in module-level names
ClusterShared(r) ==
    /\ pc[r] = "cluster"
    /\ \E out \in ClusterOutcomes(request[r].daily_logs) :
          /\ do_cluster' = [q \in Reqs |-> out.do_cluster]
          /\ df_survey' = [q \in Reqs |-> out.df_survey]
          /\ encoders' = [q \in Reqs |-> out.encoders]
          /\ cluster' = [q \in Reqs |-> out.cluster]
          /\ bad_good' = [q \in Reqs |-> out.bad_good]
          /\ caught' = [q \in Reqs |-> out.caught]
          /\ suggestions' = [q \in Reqs |-> out.suggestions]
    /\ pc' = [pc EXCEPT ![r] = "plot"]
    /\ UNCHANGED <<request, mood_counts, dominant_mood, figs, chart_file, mailed, response>>

\* the clustering branch without its own try: the error reaches line 269
ClusterNoTry(r) ==
    /\ pc[r] = "cluster"
    /\ \E out \in ClusterOutcomes(request[r].daily_logs) :
          /\ do_cluster' = [do_cluster EXCEPT ![r] = out.do_cluster]
          /\ df_survey' = [df_survey EXCEPT ![r] = out.df_survey]
          /\ encoders' = [encoders EXCEPT ![r] = out.encoders]
          /\ cluster' = [cluster EXCEPT ![r] = out.cluster]
          /\ bad_good' = [bad_good EXCEPT ![r] = out.bad_good]
          /\ caught' = [caught EXCEPT ![r] = out.caught]
          /\ IF out.caught
             THEN Fail(r, 500, "ValueError") /\ UNCHANGED suggestions
             ELSE /\ suggestions' = [suggestions EXCEPT ![r] = out.suggestions]
                  /\ pc' = [pc EXCEPT ![r] = "plot"]
                  /\ UNCHANGED response
    /\ UNCHANGED <<request, mood_counts, dominant_mood, figs, chart_file, mailed>>

\* lines 95-150: encoding, clustering, correlation, the fallback
Cluster(r) ==
    /\ pc[r] = "cluster"
    /\ \E out \in ClusterOutcomes(request[r].daily_logs) :
          /\ do_cluster' = [do_cluster EXCEPT ![r] = out.do_cluster]
          /\ df_survey' = [df_survey EXCEPT ![r] = out.df_survey]
          /\ encoders' = [encoders EXCEPT ![r] = out.encoders]
          /\ cluster' = [cluster EXCEPT ![r] = out.cluster]
          /\ bad_good' = [bad_good EXCEPT ![r] = out.bad_good]
          /\ caught' = [caught EXCEPT ![r] = out.caught]
          /\ suggestions' = [suggestions EXCEPT ![r] = out.suggestions]
    /\ pc' = [pc EXCEPT ![r] = "plot"]
    /\ UNCHANGED <<request, mood_counts, dominant_mood, figs, chart_file, mailed, response>>

\* lines 154-179: plt.subplots() registers a new figure and makes it the active
\* one; the bars are drawn on it.  A NaN among the bar labels (a record without
\* mood) is refused by matplotlib's category axis with TypeError in the versions
\* that check the labels and drawn by the others: either may happen.
Plot(r) ==
    /\ pc[r] = "plot"
    /\ figs' = Append(figs, r)
    /\ \E raises \in {FALSE, (Absent \in Range(mood_counts[r].names))} :
          IF raises
          THEN Fail(r, 500, "TypeError")
          ELSE pc' = [pc EXCEPT ![r] = "save"] /\ UNCHANGED response
    /\ UNCHANGED <<request, engine, chart_file, mailed>>

\* lines 181-182: plt.tight_layout(); plt.savefig(chart_path) act on gcf(), the
\* active figure of the registry, whichever request made it (a blank one is made
\* when the registry is empty); writing the file may fail with OSError
Save(r) ==
    /\ pc[r] = "save"
    /\ LET now == IF figs = <<>> THEN <<Blank>> ELSE figs IN
       /\ figs' = now
       /\ \E oserror \in BOOLEAN :
             IF oserror
             THEN Fail(r, 500, "OSError") /\ UNCHANGED chart_file
             ELSE /\ chart_file' = now[Len(now)]
                  /\ pc' = [pc EXCEPT ![r] = "close"]
                  /\ UNCHANGED response
    /\ UNCHANGED <<request, engine, mailed>>

\* line 183: plt.close() closes the active figure, if there is one
Close(r) ==
    /\ pc[r] = "close"
    /\ figs' = IF figs = <<>> THEN figs ELSE SubSeq(figs, 1, Len(figs) - 1)
    /\ pc' = [pc EXCEPT ![r] = "email"]
    /\ UNCHANGED <<request, engine, chart_file, mailed, response>>

\* lines 261-267: each of the two reports that is sent (guardian_email given,
\* clinic_email with an "@", credentials set) attaches the chart file as it is
\* now; then the success response
Email(r) ==
    /\ pc[r] = "email"
    /\ \E guardian, clinic \in BOOLEAN :
          mailed' = [mailed EXCEPT ![r] =
                        (IF guardian THEN <<chart_file>> ELSE <<>>)
                     \o (IF clinic THEN <<chart_file>> ELSE <<>>)]
    /\ response' = [response EXCEPT ![r] =
           [status |-> 200, dominant_mood |-> dominant_mood[r],
            suggestions |-> suggestions[r], message |-> ""]]
    /\ pc' = [pc EXCEPT ![r] = "done"]
    /\ UNCHANGED <<request, engine, figs, chart_file>>

Step(r) ==
    \/ Validate(r)
    \/ Cluster(r)
    \/ Plot(r)
    \/ Save(r)
    \/ Close(r)
    \/ Email(r)

Next == \E r \in Reqs : Step(r)

---------------------------------------------------------------------------
(* Requests *)

VA == Vals \cup {Absent}

BaseVal == CHOOSE v \in Vals : \A w \in Vals : v <= w

OtherVals == Vals \ {BaseVal}

SeqsUpTo(S, n) == UNION {[1..k -> S] : k \in 0..n}

NoBody == [body |-> "none", daily_logs |-> <<>>, camera_moods |-> <<>>]

ArrayBody == [body |-> "list", daily_logs |-> <<>>, camera_moods |-> <<>>]

Objects(surveys, cameras) ==
    {[body |-> "object", daily_logs |-> s, camera_moods |-> c] :
        s \in surveys, c \in cameras}

\* a camera log: mood only (or not even that)
CameraRecs == {[f \in FieldSet |-> IF f = "mood" THEN m ELSE Absent] : m \in VA}

\* survey logs whose exercise and mood vary or are missing
RichRecs ==
    {[f \in FieldSet |-> CASE f = "exercise" -> ex [] f = "mood" -> mo [] OTHER -> BaseVal] :
        ex \in VA, mo \in VA}

\* complete survey logs: at most one of sleep, exercise and energy off the base
\* value; the mood is off the base value only in logs that differ from the
\* all-base log in nothing else or in sleep alone
KRecs ==
    {rec \in {[f \in FieldSet |->
                  CASE f = "mood" -> mo [] f = hi -> v [] OTHER -> BaseVal] :
                  mo \in Vals, hi \in {"sleep", "exercise", "energy", "none"},
                  v \in OtherVals} :
        rec["mood"] = BaseVal \/ (rec["exercise"] = BaseVal /\ rec["energy"] = BaseVal)}

\* complete survey logs: sleep and mood move together
ConcRecs ==
    {[f \in FieldSet |-> IF f \in {"sleep", "mood"} THEN v ELSE BaseVal] : v \in Vals}

RichInputs ==
    {NoBody, ArrayBody}
        \cup Objects(SeqsUpTo(RichRecs, MaxSurvey), SeqsUpTo(CameraRecs, MaxCamera))

\* survey-only requests, and the camera-only requests of one log
KInputs ==
    {NoBody, ArrayBody}
        \cup Objects(SeqsUpTo(KRecs, MaxKLogs), {<<>>})
        \cup Objects({<<>>}, SeqsUpTo(CameraRecs, 1))

ConcInputs == {NoBody, ArrayBody} \cup Objects(SeqsUpTo(ConcRecs, MaxConcLogs), {<<>>})

LiveInputs == {NoBody, ArrayBody} \cup Objects(SeqsUpTo(ConcRecs, MaxLiveLogs), {<<>>})

\* the state of the process before any handler has run
Fresh ==
    /\ mood_counts = [r \in Reqs |-> NoCounts]
    /\ dominant_mood = [r \in Reqs |-> Absent]
    /\ do_cluster = [r \in Reqs |-> FALSE]
    /\ df_survey = [r \in Reqs |-> <<>>]
    /\ encoders = [r \in Reqs |-> <<>>]
    /\ cluster = [r \in Reqs |-> <<>>]
    /\ bad_good = [r \in Reqs |-> <<>>]
    /\ caught = [r \in Reqs |-> FALSE]
    /\ suggestions = [r \in Reqs |-> <<>>]
    /\ figs = <<>>
    /\ chart_file = NoFile
    /\ mailed = [r \in Reqs |-> <<>>]
    /\ response = [r \in Reqs |-> NoResponse]

\* one request
InitOne(inputs) ==
    /\ Fresh
    /\ pc = [r \in Reqs |-> IF r = 1 THEN "start" ELSE "idle"]
    /\ \E d \in inputs : request = [r \in Reqs |-> IF r = 1 THEN d ELSE NoBody]

Init == InitOne(RichInputs)

InitK == InitOne(KInputs)

\* two requests in flight together
InitTwo(inputs) ==
    /\ Fresh
    /\ pc = [r \in Reqs |-> "start"]
    /\ request \in [Reqs -> inputs]

InitConc == InitTwo(ConcInputs)

InitLive == InitTwo(LiveInputs)

Spec == Init /\ [][Next]_vars

SpecK == InitK /\ [][Next]_vars

SpecConc == InitConc /\ [][Next]_vars

\* a handler thread is always scheduled again and no step of it blocks or loops
SpecLive == InitLive /\ [][Next]_vars /\ \A r \in Reqs : WF_vars(Step(r))

---------------------------------------------------------------------------
(* Properties *)

\* request r has run the clustering branch and none of its later steps failed
PastCluster(r) ==
    \/ pc[r] \in {"plot", "save", "close", "email"}
    \/ pc[r] = "done" /\ response[r].status = 200

Succeeded(r) == pc[r] = "done" /\ response[r].status = 200

Moods(r) == Column(all_logs(request[r]), "mood")

Occurrences(col, m) == Cardinality({i \in DOMAIN col : col[i] = m})

FirstAt(col, m) == CHOOSE i \in DOMAIN col : col[i] = m /\ \A j \in 1..(i - 1) : col[j] # m

\* the rows of request r that fit_predict put in cluster k
Rows(r, k) == {i \in DOMAIN cluster[r] : cluster[r][i] = k}

\* the sum of the codes of column col over cluster k of request r
Total(r, k, col) == SumSet(Rows(r, k), [i \in Rows(r, k) |-> df_survey[r][i][col]])

Size(r, k) == Cardinality(Rows(r, k))

\* clustering gave two non-empty clusters
TwoClusters(r) == PastCluster(r) /\ Rows(r, 0) # {} /\ Rows(r, 1) # {}

\* the means of column col in the good and the bad cluster differ by 0.5 or more
HalfApart(r, col) ==
    LET b == bad_good[r][1]
        g == bad_good[r][2]
    IN  2 * Abs(Total(r, g, col) * Size(r, b) - Total(r, b, col) * Size(r, g))
            >= Size(r, b) * Size(r, g)

\* C1: a request that reaches the success response returns at least one
\* suggestion, whether clustering was skipped, succeeded or raised
C1_NeverEmpty ==
    \A r \in Reqs : Succeeded(r) => Len(response[r].suggestions) >= 1

\* C1 witness: a success response after the clustering branch raised
C1_Witness ==
    \E r \in Reqs : Succeeded(r) /\ caught[r] /\ Len(response[r].suggestions) = 1

\* C2 (as stated): when the merged logs are empty or some record has no mood,
\* the request ends with a 400 response and returns no mood and no suggestions
C2_MissingMoodRejected ==
    \A r \in Reqs :
        ( /\ pc[r] = "done"
          /\ request[r].body = "object"
          /\ \/ all_logs(request[r]) = <<>>
             \/ \E i \in DOMAIN Moods(r) : Moods(r)[i] = Absent )
        => /\ response[r].status = 400
           /\ response[r].dominant_mood = Absent
           /\ response[r].suggestions = <<>>

\* C3 (as stated): when some survey log lacks one of the six fields, clustering
\* is skipped and the suggestions are exactly the generic fallback
C3_IncompleteSkipsClustering ==
    \A r \in Reqs :
        ( /\ PastCluster(r)
          /\ \E i \in DOMAIN request[r].daily_logs :
                \E f \in FieldSet : request[r].daily_logs[i][f] = Absent )
        => /\ ~do_cluster[r]
           /\ suggestions[r] = <<NoCorrelationMsg>>

\* no feature of request r clears the threshold
NoneCorrelated(r) == TwoClusters(r) /\ \A col \in FeatSet : ~HalfApart(r, col)

C5_DominantMood ==
    \A r \in Reqs :
        ( /\ pc[r] \notin {"idle", "start"}
          /\ request[r].body = "object"
          /\ Moods(r) # <<>>
          /\ \A i \in DOMAIN Moods(r) : Moods(r)[i] # Absent )
        => /\ dominant_mood[r] \in Range(Moods(r))
           /\ \A m \in Range(Moods(r)) :
                 /\ Occurrences(Moods(r), m) <= Occurrences(Moods(r), dominant_mood[r])
                 /\ Occurrences(Moods(r), m) = Occurrences(Moods(r), dominant_mood[r])
                       => FirstAt(Moods(r), dominant_mood[r]) <= FirstAt(Moods(r), m)
           /\ pc[r] = "done" => /\ response[r].status # 400
                                /\ response[r].status = 200
                                      => response[r].dominant_mood = dominant_mood[r]

\* C5 witness: a tie between a label of the survey logs and a different, smaller
\* label of the camera logs, answered with the survey label
C5_Witness ==
    \E r \in Reqs :
        /\ Succeeded(r)
        /\ Len(request[r].daily_logs) = 1 /\ Len(request[r].camera_moods) = 1
        /\ request[r].daily_logs[1]["mood"] > request[r].camera_moods[1]["mood"]
        /\ request[r].camera_moods[1]["mood"] # Absent
        /\ response[r].dominant_mood = request[r].daily_logs[1]["mood"]

\* the engine values of request r
EngineOf(r) ==
    <<mood_counts[r], dominant_mood[r], do_cluster[r], df_survey[r], encoders[r],
      cluster[r], bad_good[r], caught[r], suggestions[r]>>

\* what request r holds follows from its own request alone
OwnInputOnly(r) ==
    /\ pc[r] \in {"cluster", "plot", "save", "close", "email"} \/ Succeeded(r)
          => /\ mood_counts[r] = Counter(Moods(r))
             /\ dominant_mood[r] = MaxByCount(Counter(Moods(r)))
    /\ pc[r] = "cluster" => suggestions[r] = <<>> /\ encoders[r] = <<>> /\ cluster[r] = <<>>
    /\ PastCluster(r)
          => [do_cluster |-> do_cluster[r], df_survey |-> df_survey[r],
              encoders |-> encoders[r], cluster |-> cluster[r],
              bad_good |-> bad_good[r], caught |-> caught[r],
              suggestions |-> suggestions[r]]
                 \in ClusterOutcomes(request[r].daily_logs)
    /\ Succeeded(r)
          => /\ response[r].suggestions = suggestions[r]
             /\ response[r].dominant_mood = dominant_mood[r]

\* C6: with two requests interleaved in any way, the mood counts, dominant mood,
\* encoding tables, cluster labels and suggestions of each follow from its own
\* request, and a step of one request never changes those of the other
C6_Isolation ==
    /\ [](\A r \in Reqs : OwnInputOnly(r))
    /\ [][\A r \in Reqs : pc'[r] = pc[r] => EngineOf(r)' = EngineOf(r)]_vars

\* C6 witness: both requests answered with different suggestions, after steps so
\* interleaved that the first mailed the chart of the second
C6_Witness ==
    /\ Succeeded(1) /\ Succeeded(2)
    /\ response[1].suggestions # response[2].suggestions
    /\ encoders[1] # encoders[2]
    /\ mailed[1] = <<2>>

MoodTotal(r, k) == Total(r, k, "mood")

\* C7: with two non-empty clusters, the mean encoded mood of the bad cluster is at
\* most that of the good one, and when the means are equal bad is 0 and good is 1
C7_BadNotAboveGood ==
    \A r \in Reqs :
        TwoClusters(r)
        => LET b == bad_good[r][1]
               g == bad_good[r][2]
           IN  /\ {b, g} = {0, 1}
               /\ MoodTotal(r, b) * Size(r, g) <= MoodTotal(r, g) * Size(r, b)
               /\ MoodTotal(r, b) * Size(r, g) = MoodTotal(r, g) * Size(r, b)
                     => bad_good[r] = <<0, 1>>

\* C7 witness: two clusters of mixed moods with exactly equal mood means
C7_Witness ==
    \E r \in Reqs :
        /\ TwoClusters(r)
        /\ MoodTotal(r, 0) > 0
        /\ MoodTotal(r, 0) * Size(r, 1) = MoodTotal(r, 1) * Size(r, 0)
        /\ bad_good[r] = <<0, 1>>

\* the strings the survey logs of request r carry in column col
Observed(r, col) == Range(Column(request[r].daily_logs, col)) \ {Absent}

\* C8 (as stated): per column, the codes of the observed strings are exactly
\* 0..k-1 for k distinct observed strings, in the order of the strings
C8_DenseCodes ==
    \A r \in Reqs :
        (PastCluster(r) /\ do_cluster[r])
        => \A col \in FieldSet :
              LET logs == request[r].daily_logs
                  here == {i \in DOMAIN logs : logs[i][col] # Absent}
              IN  /\ {df_survey[r][i][col] : i \in here}
                        = 0..(Cardinality(Observed(r, col)) - 1)
                  /\ \A i, j \in here :
                        /\ logs[i][col] = logs[j][col]
                              <=> df_survey[r][i][col] = df_survey[r][j][col]
                        /\ logs[i][col] < logs[j][col]
                              <=> df_survey[r][i][col] < df_survey[r][j][col]

\* the messages of the columns whose means are 0.5 or more apart, in column order
RECURSIVE Expected(_, _)
Expected(r, k) ==
    IF k = 0 THEN <<>>
    ELSE IF HalfApart(r, FeatCols[k])
         THEN Append(Expected(r, k - 1), msg_map(FeatCols[k]))
         ELSE Expected(r, k - 1)

\* the two survey logs of request r are complete and differ in sleep and in mood
\* and in nothing else
SleepOnly(r) ==
    LET logs == request[r].daily_logs IN
    /\ request[r].body = "object"
    /\ Len(logs) = 2
    /\ \A f \in FieldSet : logs[1][f] # Absent /\ logs[2][f] # Absent
    /\ \A f \in FieldSet : logs[1][f] # logs[2][f] <=> f \in {"sleep", "mood"}

\* C9: with two non-empty clusters the suggestions are one message per feature
\* whose cluster means are 0.5 or more apart and none for any other feature, in
\* the order sleep, water, exercise, pain, energy (the one generic fallback stands
\* in when there is no such feature); two survey logs that differ only in sleep
\* and mood give the sleep message alone
C9_OnePerCorrelatedFeature ==
    \A r \in Reqs :
        /\ TwoClusters(r)
              => suggestions[r] = IF Expected(r, Len(FeatCols)) = <<>>
                                  THEN <<NoCorrelationMsg>>
                                  ELSE Expected(r, Len(FeatCols))
        /\ (PastCluster(r) /\ SleepOnly(r)) => suggestions[r] = <<msg_map("sleep")>>

\* C9 witness: two features over the threshold, one exactly 0.5 apart, and
\* between them in column order a feature that is not
C9_Witness ==
    \E r \in Reqs :
        /\ TwoClusters(r)
        /\ suggestions[r] = <<msg_map("sleep"), msg_map("energy")>>
        /\ \E col \in {"sleep", "energy"} :
              2 * Abs(Total(r, 1, col) * Size(r, 0) - Total(r, 0, col) * Size(r, 1))
                  = Size(r, 0) * Size(r, 1)

\* the messages of the error responses that do not come from the clustering branch
OtherFaults == {"AttributeError", "TypeError", "OSError"}

InputErrors == {"No JSON body", "No mood data", "Missing 'mood' column in logs"}

\* the response of an ended request is one of the three kinds
WellFormed(r) ==
    \/ /\ response[r].status = 200
       /\ Len(response[r].suggestions) >= 1
       /\ response[r].dominant_mood = dominant_mood[r]
    \/ response[r].status = 400 /\ response[r].message \in InputErrors
    \/ response[r].status = 500 /\ response[r].message \in OtherFaults

\* C10: every request ends, once, with a 200, 400 or 500 response; an error of
\* the clustering branch is caught there, the handler goes on to a success
\* response, and a 500 response only ever carries the fault of another step
C10_OneResponse ==
    /\ \A r \in Reqs : <>(pc[r] = "done")
    /\ [](\A r \in Reqs :
            /\ pc[r] = "done" => WellFormed(r)
            /\ pc[r] # "done" => response[r] = NoResponse
            /\ caught[r] /\ pc[r] = "done"
                  => \/ response[r].status = 200
                           /\ response[r].suggestions = <<ClusterErrorMsg>>
                     \/ response[r].status = 500
                           /\ response[r].message \in {"TypeError", "OSError"})
    /\ [][\A r \in Reqs :
            /\ pc[r] = "done" => pc'[r] = "done" /\ response'[r] = response[r]
            /\ caught'[r] /\ ~caught[r] => pc'[r] = "plot"]_vars

\* C10 witness: both requests ended, one with a success response after its
\* clustering branch raised, the other with an error response
C10_Witness ==
    /\ pc[1] = "done" /\ pc[2] = "done"
    /\ caught[1] /\ response[1].status = 200
    /\ response[2].status \in {400, 500}

====
